---- MODULE Spec2Model ----
(***************************************************************************)
(* Model of the multi-vector retriever (retriever.py), of the Q&A chain    *)
(* built on it (qa_chain.py) and of the application that owns both         *)
(* (main.py).                                                              *)
(*                                                                         *)
(* The Summary Index is the Chroma collection "multimodal_summaries",      *)
(* persisted under ./chroma_db; the Content Store is an InMemoryStore.     *)
(* Both are joined by metadata["doc_id"].  The embedding model, Chroma,    *)
(* the InMemoryStore and the chat model are collaborators: what they       *)
(* answer is modelled by the operators below, and whether a call to one of *)
(* them fails is an input of the action that makes the call.               *)
(***************************************************************************)
EXTENDS Integers, Sequences, FiniteSets, TLC

\* ------------------------------------------------------------------ bounds
\* Most ids (records of the Summary Index) a behaviour of Spec creates.
MaxIds == 2
\* Longest list handed to add_documents_to_retriever.
MaxLen == 2
\* Most ids a behaviour of SpecQuery creates: one more than search_kwargs_k,
\* so that the index holds more records than one index search returns.
MaxDocs == 5
\* Largest k handed to search: one more than search_kwargs_k.
MaxK == 5
\* Most questions handed to batch_ask in one call.
MaxQuestions == 2
\* Longest list handed to setup_retrieval.
MaxBatch == 1

\* ------------------------------------------------------------------ inputs
Summaries == {"s1", "s2"}
Originals == {"o1", "o2"}
Queries == {"q1", "q2"}
\* content_type is any string; add_all_content passes "text", "table", "image".
ContentTypes == {"text", "image"}

\* Python's None
None == "<None>"

SeqsUpTo(S, n) == UNION {[1..m -> S] : m \in 0..n}

Min(a, b) == IF a <= b THEN a ELSE b

\* retriever.py:47  search_kwargs={"k": 4}
search_kwargs_k == 4
\* retriever.py:114  def search(self, query, k: int = 4)
default_k == 4

VARIABLES
    vectorstore,  \* Chroma collection: sequence of summary documents, in insertion order
    docstore,     \* InMemoryStore: function from doc_id to original content
    last,         \* what the last call was and what it gave back to its caller
    qa_chain,     \* MultiModalRAGApp.qa_chain: None until setup_retrieval has run
    calls         \* add_documents_to_retriever calls in progress, one per thread

vars == <<vectorstore, docstore, last, qa_chain, calls>>

\* What the retriever's own methods leave alone.
app == <<qa_chain, calls>>

\* Threads that may be inside add_documents_to_retriever at the same time.
Threads == {"t1", "t2"}

\* A thread that is in no call.
Idle == [pc |-> "idle"]

\* The empty InMemoryStore.
EmptyStore == [id \in {} |-> "none"]

\* ids held by each store
IndexIds == {vectorstore[i].doc_id : i \in 1..Len(vectorstore)}
StoreIds == DOMAIN docstore

\* str(uuid.uuid4()): an id no store holds.  Ids are numbered in the order
\* the index received them, so the i-th fresh id of a call is the i-th
\* number after the ones in use.
uuid4(i) == Len(vectorstore) + i

\* Mutant: the second list is paired back to front.
zip_reversed(a, b) ==
    [i \in 1..(IF Len(a) <= Len(b) THEN Len(a) ELSE Len(b)) |-> <<a[i], b[Len(b) + 1 - i]>>]

\* zip(a, b): pairs up to the shorter of the two lists
zip(a, b) == [i \in 1..Min(Len(a), Len(b)) |-> <<a[i], b[i]>>]

\* InMemoryStore.mset(pairs), stopped after the first `upto` pairs
mset(store, pairs, upto) ==
    LET new == {pairs[i][1] : i \in 1..upto}
    IN [id \in DOMAIN store \cup new |->
          IF \E i \in 1..upto : pairs[i][1] = id
          THEN LET j == CHOOSE i \in 1..upto :
                          /\ pairs[i][1] = id
                          /\ \A h \in 1..upto : pairs[h][1] = id => h <= i
               IN pairs[j][2]
          ELSE store[id]]

Init ==
    /\ vectorstore = <<>>
    /\ docstore = EmptyStore
    /\ last = [op |-> "init"]
    /\ qa_chain = None
    /\ calls = [t \in Threads |-> Idle]

\* _setup_retriever: the collection is opened from its persisted directory,
\* the document store is created empty.  A failure raises RuntimeError and no
\* retriever object comes to exist.
_setup_retriever(fails) ==
    IF fails
    THEN /\ UNCHANGED <<vectorstore, docstore>>
         /\ last' = [op |-> "construct", outcome |-> "RuntimeError"]
    ELSE /\ vectorstore' = vectorstore
         /\ docstore' = EmptyStore
         /\ last' = [op |-> "construct", outcome |-> "ok"]

\* doc_ids = [str(uuid.uuid4()) for _ in summaries]
doc_ids(summaries) == [i \in 1..Len(summaries) |-> uuid4(i)]

\* The summary documents of one call.
summary_docs(summaries, content_type) ==
    [i \in 1..Len(summaries) |->
        [page_content |-> summaries[i],
         doc_id |-> doc_ids(summaries)[i],
         content_type |-> content_type,
         index |-> i - 1]]

\* Where a call of add_documents_to_retriever is cut short by a collaborator:
\* nowhere; in vectorstore.add_documents (the embedding call or the
\* collection write raises, nothing is written); or after the collection
\* write, `written` pairs into docstore.mset (an interrupt, or the store
\* raising).
NoFault == [at |-> "none", written |-> 0]
IngestFaults ==
    {NoFault, [at |-> "add_documents", written |-> 0]}
        \cup {[at |-> "mset", written |-> j] : j \in 0..(MaxLen - 1)}

\* What the last add_documents_to_retriever was given (the lengths of its
\* two lists) and what its caller saw.
IngestOutcome(outcome, summaries, original_contents, ids) ==
    [op |-> "ingest", outcome |-> outcome,
     nS |-> Len(summaries), nO |-> Len(original_contents), ids |-> ids]

\* The try block of add_documents_to_retriever (lines 64-92): the ids, the
\* summary documents, the collection write, then the document store write.
\* Whatever is raised is printed and raised again; nothing is undone.
write_documents(summaries, original_contents, content_type, fault) ==
    LET doc_pairs == zip(doc_ids(summaries), original_contents)
    IN CASE fault.at = "none" ->
              /\ vectorstore' = vectorstore \o summary_docs(summaries, content_type)
              /\ docstore' = mset(docstore, doc_pairs, Len(doc_pairs))
              /\ last' = IngestOutcome("ok", summaries, original_contents,
                                       doc_ids(summaries))
         [] fault.at = "add_documents" ->
              /\ UNCHANGED <<vectorstore, docstore>>
              /\ last' = IngestOutcome("raised", summaries, original_contents,
                                       doc_ids(summaries))
         [] fault.at = "mset" ->
              /\ fault.written < Len(doc_pairs)
              /\ vectorstore' = vectorstore \o summary_docs(summaries, content_type)
              /\ docstore' = mset(docstore, doc_pairs, fault.written)
              /\ last' = IngestOutcome("raised", summaries, original_contents,
                                       doc_ids(summaries))

\* The early return of lines 57-59.
skip_documents(summaries, original_contents, fault) ==
    /\ fault = NoFault
    /\ UNCHANGED <<vectorstore, docstore>>
    /\ last' = IngestOutcome("skipped", summaries, original_contents, <<>>)

\* The ValueError of lines 61-62.
raise_mismatch(summaries, original_contents, fault) ==
    /\ fault = NoFault
    /\ UNCHANGED <<vectorstore, docstore>>
    /\ last' = IngestOutcome("ValueError", summaries, original_contents, <<>>)

\* Mutant: the length check is missing, zip pairs up to the shorter list.
add_documents_no_length_check(summaries, original_contents, content_type, fault) ==
    IF summaries = <<>> \/ original_contents = <<>>
    THEN skip_documents(summaries, original_contents, fault)
    ELSE write_documents(summaries, original_contents, content_type, fault)

\* Mutant: the length check comes before the emptiness check.
add_documents_length_check_first(summaries, original_contents, content_type, fault) ==
    IF Len(summaries) # Len(original_contents)
    THEN raise_mismatch(summaries, original_contents, fault)
    ELSE IF summaries = <<>> \/ original_contents = <<>>
    THEN skip_documents(summaries, original_contents, fault)
    ELSE write_documents(summaries, original_contents, content_type, fault)

add_documents_to_retriever(summaries, original_contents, content_type, fault) ==
    IF summaries = <<>> \/ original_contents = <<>>
    THEN skip_documents(summaries, original_contents, fault)
    ELSE IF Len(summaries) # Len(original_contents)
    THEN raise_mismatch(summaries, original_contents, fault)
    ELSE write_documents(summaries, original_contents, content_type, fault)

\* ------------------------------------------------------------------ search
\* The embedding model and the collection's metric: how close a summary is
\* to a query.  Equal scores keep insertion order.
similarity(query, text) ==
    IF (query = "q1" /\ text = "s1") \/ (query = "q2" /\ text = "s2") THEN 2 ELSE 1

Take(s, n) == SubSeq(s, 1, Min(n, Len(s)))

\* vectorstore.similarity_search(query, k=n)
similarity_search(query, n) ==
    LET near == SelectSeq(vectorstore, LAMBDA d : similarity(query, d.page_content) = 2)
        far == SelectSeq(vectorstore, LAMBDA d : similarity(query, d.page_content) = 1)
    IN Take(near \o far, n)

\* ids of the sub-documents, first occurrence kept
RECURSIVE unique_ids(_)
unique_ids(sub_docs) ==
    IF sub_docs = <<>> THEN <<>>
    ELSE LET front == unique_ids(SubSeq(sub_docs, 1, Len(sub_docs) - 1))
             id == sub_docs[Len(sub_docs)].doc_id
         IN IF \E i \in 1..Len(front) : front[i] = id THEN front ELSE Append(front, id)

\* docstore.mget(ids)
mget(ids) == [i \in 1..Len(ids) |-> IF ids[i] \in DOMAIN docstore THEN docstore[ids[i]] ELSE None]

\* MultiVectorRetriever.invoke(query)
retriever_invoke(query) ==
    LET sub_docs == similarity_search(query, search_kwargs_k)
        docs == mget(unique_ids(sub_docs))
    IN SelectSeq(docs, LAMBDA d : d # None)

SearchError == "Search error"

\* Mutant: the slice is taken from the end, results[-k:].
search_last_k(query, k, fault) ==
    IF fault THEN <<SearchError>>
    ELSE LET results == retriever_invoke(query)
         IN IF k = 0 THEN results
            ELSE SubSeq(results, Len(results) - Min(k, Len(results)) + 1, Len(results))

\* search(query, k); fault: retriever.invoke raises (embedding model,
\* collection or document store).
search(query, k, fault) ==
    IF fault THEN <<SearchError>> ELSE Take(retriever_invoke(query), k)

\* ------------------------------------------------------------------ Q&A chain
\* format_docs
format_docs(docs) == [i \in 1..Len(docs) |-> <<"Content", docs[i]>>]

\* prompt | llm | StrOutputParser: the answer the chat model gives
llm(context, question) == <<"answer", context, question>>

\* get_stats
get_stats(fault) ==
    IF fault THEN [error |-> "stats error"]
    ELSE [vector_documents |-> Len(vectorstore),
          stored_documents |-> Cardinality(DOMAIN docstore)]

\* ModernQAChain.ask.  searchFault1: the search inside the chain fails;
\* llmFault: the chat model call raises; searchFault2: the second search
\* fails; statsFault: get_stats fails.
ask(question, searchFault1, llmFault, searchFault2, statsFault) ==
    IF llmFault
    THEN [question |-> question, answer |-> "Error processing question",
          context_used |-> 0, error |-> TRUE]
    ELSE LET answer == llm(format_docs(search(question, default_k, searchFault1)), question)
             context_docs == search(question, default_k, searchFault2)
         IN [question |-> question, answer |-> answer,
             context_used |-> Len(context_docs),
             retriever_stats |-> get_stats(statsFault)]

\* ModernQAChain.batch_ask.  chain.batch runs the chain once per input; the
\* first exception of any run is raised out of chain.batch, and the except
\* clause then answers for every question of the batch.  searchFaults[i]: the
\* search inside run i fails; llmFaults[i]: the chat model call of run i
\* raises.
batch_ask(questions, searchFaults, llmFaults) ==
    IF \E i \in 1..Len(questions) : llmFaults[i]
    THEN [i \in 1..Len(questions) |->
            [question |-> questions[i], answer |-> "Batch error", error |-> TRUE]]
    ELSE LET answers == [i \in 1..Len(questions) |->
                            llm(format_docs(search(questions[i], default_k, searchFaults[i])),
                                questions[i])]
         IN [i \in 1..Len(questions) |->
                [question |-> questions[i], answer |-> answers[i], batch_index |-> i - 1]]

\* ------------------------------------------------------------------ application
\* add_documents_to_retriever as a function of the stores it starts from: the
\* stores it leaves and what its caller sees.  add_all_content makes up to
\* three of these calls one after another.
documents_added(stores, summaries, original_contents, content_type, fault) ==
    LET ids == [i \in 1..Len(summaries) |-> Len(stores.vectorstore) + i]
        docs == [i \in 1..Len(summaries) |->
                    [page_content |-> summaries[i], doc_id |-> ids[i],
                     content_type |-> content_type, index |-> i - 1]]
        doc_pairs == zip(ids, original_contents)
    IN IF summaries = <<>> \/ original_contents = <<>>
       THEN [stores EXCEPT !.outcome = "skipped"]
       ELSE IF Len(summaries) # Len(original_contents)
       THEN [stores EXCEPT !.outcome = "ValueError"]
       ELSE CASE fault.at = "none" ->
                   [vectorstore |-> stores.vectorstore \o docs,
                    docstore |-> mset(stores.docstore, doc_pairs, Len(doc_pairs)),
                    outcome |-> "ok"]
              [] fault.at = "add_documents" ->
                   [stores EXCEPT !.outcome = "raised"]
              [] fault.at = "mset" ->
                   [vectorstore |-> stores.vectorstore \o docs,
                    docstore |-> mset(stores.docstore, doc_pairs,
                                      Min(fault.written, Len(doc_pairs))),
                    outcome |-> "raised"]

\* An exception left the call.
Raised(stores) == stores.outcome \in {"raised", "ValueError"}

\* Where add_all_content is cut short: in none of its calls, or in the call
\* for one content type, at the place IngestFaults names.
NoContentFault == [call |-> "none", at |-> "none", written |-> 0]
ContentFaults ==
    {NoContentFault}
        \cup {[call |-> c, at |-> "add_documents", written |-> 0] : c \in {"text", "table", "image"}}
        \cup {[call |-> c, at |-> "mset", written |-> j] :
                  c \in {"text", "table", "image"}, j \in 0..(MaxBatch - 1)}

\* The fault of the call for one content type.
fault_of(fault, call) ==
    IF fault.call = call THEN [at |-> fault.at, written |-> fault.written] ELSE NoFault

\* The three calls of add_all_content, the image summaries stored with
\* image_originals.  An exception of one call ends add_all_content.
content_added(text_summaries, text_elements, table_summaries, table_elements, image_summaries, image_originals, fault) ==
    LET start == [vectorstore |-> vectorstore, docstore |-> docstore, outcome |-> "skipped"]
        text == IF text_summaries # <<>> /\ text_elements # <<>>
                THEN documents_added(start, text_summaries, text_elements, "text",
                                     fault_of(fault, "text"))
                ELSE start
        table == IF Raised(text) THEN text
                 ELSE IF table_summaries # <<>> /\ table_elements # <<>>
                 THEN documents_added(text, table_summaries, table_elements, "table",
                                      fault_of(fault, "table"))
                 ELSE text
        image == IF Raised(table) THEN table
                 ELSE IF image_summaries # <<>>
                 THEN documents_added(table, image_summaries, image_originals, "image",
                                      fault_of(fault, "image"))
                 ELSE table
    IN [image EXCEPT !.outcome = IF Raised(image) THEN image.outcome ELSE "ok"]

\* Mutant: the image summaries are stored with the image payloads.
add_all_content_image_payloads(text_summaries, text_elements, table_summaries, table_elements, image_summaries, fault) ==
    content_added(text_summaries, text_elements, table_summaries, table_elements,
                  image_summaries, [i \in 1..Len(image_summaries) |-> "base64 image"], fault)

\* add_all_content: images are stored under their own summaries.
add_all_content(text_summaries, text_elements, table_summaries, table_elements, image_summaries, fault) ==
    content_added(text_summaries, text_elements, table_summaries, table_elements,
                  image_summaries, image_summaries, fault)

\* The fault names a place the call reaches.
fault_reached(text_summaries, text_elements, table_summaries, table_elements, image_summaries, fault) ==
    \/ fault = NoContentFault
    \/ /\ fault.call = "text" /\ fault.written < Len(text_summaries)
       /\ Len(text_summaries) = Len(text_elements)
    \/ /\ fault.call = "table" /\ fault.written < Len(table_summaries)
       /\ Len(table_summaries) = Len(table_elements)
       /\ text_summaries # <<>> /\ text_elements # <<>>
              => Len(text_summaries) = Len(text_elements)
    \/ /\ fault.call = "image" /\ fault.written < Len(image_summaries)
       /\ text_summaries # <<>> /\ text_elements # <<>>
              => Len(text_summaries) = Len(text_elements)
       /\ table_summaries # <<>> /\ table_elements # <<>>
              => Len(table_summaries) = Len(table_elements)

\* MultiModalRAGApp.setup_retrieval: the content is added, then the Q&A chain
\* is built.  An exception of add_all_content leaves the method before the
\* chain is built.
setup_retrieval(text_summaries, text_elements, table_summaries, table_elements, image_summaries, fault) ==
    LET added == add_all_content(text_summaries, text_elements, table_summaries,
                                 table_elements, image_summaries, fault)
    IN /\ vectorstore' = added.vectorstore
       /\ docstore' = added.docstore
       /\ qa_chain' = IF Raised(added) THEN qa_chain ELSE "ModernQAChain"
       /\ last' = [op |-> "setup_retrieval", outcome |-> added.outcome,
                   text_summaries |-> text_summaries, text_elements |-> text_elements,
                   table_summaries |-> table_summaries, table_elements |-> table_elements,
                   image_summaries |-> image_summaries, first_id |-> Len(vectorstore) + 1]

\* Mutant: the check of qa_chain is missing; None has no method ask.
ask_question_unchecked(question, searchFault1, llmFault, searchFault2, statsFault) ==
    IF qa_chain = None
    THEN [outcome |-> "AttributeError", invoked |-> {}, result |-> [error |-> "none"]]
    ELSE [outcome |-> "returned", invoked |-> {"search", "llm"},
          result |-> ask(question, searchFault1, llmFault, searchFault2, statsFault)]

\* MultiModalRAGApp.ask_question: what the caller sees, and which of the
\* retriever's search and the chat model the call reached.
ask_question(question, searchFault1, llmFault, searchFault2, statsFault) ==
    IF qa_chain = None
    THEN [outcome |-> "returned", invoked |-> {},
          result |-> [error |-> "Q&A chain not initialized"]]
    ELSE [outcome |-> "returned", invoked |-> {"search", "llm"},
          result |-> ask(question, searchFault1, llmFault, searchFault2, statsFault)]

\* ------------------------------------------------------------------ actions
Construct == \E fails \in BOOLEAN : _setup_retriever(fails) /\ UNCHANGED app

Ingest ==
    \E summaries \in SeqsUpTo(Summaries, MaxLen),
       original_contents \in SeqsUpTo(Originals, MaxLen),
       content_type \in ContentTypes,
       fault \in IngestFaults :
        /\ Len(vectorstore) + Len(summaries) <= MaxIds
        /\ add_documents_to_retriever(summaries, original_contents, content_type, fault)
        /\ UNCHANGED app

\* One (summary, original) pair of text content, the original being the
\* element the summary was made from.
original_of(summary) == IF summary = "s1" THEN "o1" ELSE "o2"

IngestPair ==
    \E summary \in Summaries, fault \in {NoFault, [at |-> "mset", written |-> 0]} :
        /\ Len(vectorstore) < MaxDocs
        /\ add_documents_to_retriever(<<summary>>, <<original_of(summary)>>, "text", fault)
        /\ UNCHANGED app

Search ==
    \E query \in Queries, k \in 0..MaxK, fault \in BOOLEAN :
        /\ UNCHANGED <<vectorstore, docstore, app>>
        /\ last' = [op |-> "search", outcome |-> "returned", query |-> query, k |-> k,
                    fault |-> fault, result |-> search(query, k, fault)]

Ask ==
    \E question \in Queries, searchFault1 \in BOOLEAN, llmFault \in BOOLEAN,
       searchFault2 \in BOOLEAN, statsFault \in BOOLEAN :
        /\ llmFault => ~searchFault2 /\ ~statsFault
        /\ UNCHANGED <<vectorstore, docstore, app>>
        /\ last' = [op |-> "ask", outcome |-> "returned", question |-> question,
                    searchFailed |-> searchFault1 \/ searchFault2,
                    llmFailed |-> llmFault,
                    result |-> ask(question, searchFault1, llmFault, searchFault2, statsFault)]

Next == Construct \/ Ingest

Spec == Init /\ [][Next]_vars

\* Constructions and ingest calls that run to completion: no collaborator fails.
ConstructCompleted == _setup_retriever(FALSE) /\ UNCHANGED app

IngestCompleted ==
    \E summaries \in SeqsUpTo(Summaries, MaxLen),
       original_contents \in SeqsUpTo(Originals, MaxLen),
       content_type \in ContentTypes :
        /\ Len(vectorstore) + Len(summaries) <= MaxIds
        /\ add_documents_to_retriever(summaries, original_contents, content_type, NoFault)
        /\ UNCHANGED app

NextCompleted == ConstructCompleted \/ IngestCompleted

SpecCompleted == Init /\ [][NextCompleted]_vars

\* Searches over a store filled one pair at a time.
NextQuery == Construct \/ IngestPair \/ Search

SpecQuery == Init /\ [][NextQuery]_vars

\* Questions over a store filled one pair at a time.
NextAsk == Construct \/ IngestPair \/ Ask

SpecAsk == Init /\ [][NextAsk]_vars

BatchAsk ==
    \E n \in 0..MaxQuestions :
        \E questions \in [1..n -> Queries],
           searchFaults \in [1..n -> BOOLEAN],
           llmFaults \in [1..n -> BOOLEAN] :
            /\ UNCHANGED <<vectorstore, docstore, app>>
            /\ last' = [op |-> "batch_ask", outcome |-> "returned",
                        questions |-> questions, llmFailed |-> llmFaults,
                        results |-> batch_ask(questions, searchFaults, llmFaults)]

\* Batches of questions over a store filled one pair at a time.
NextBatch == Construct \/ IngestPair \/ BatchAsk

SpecBatch == Init /\ [][NextBatch]_vars

\* The lists the pipeline hands over: summaries and elements of text, of
\* tables, and the image summaries.
TextSummaries == SeqsUpTo({"s1"}, MaxBatch)
TextElements == SeqsUpTo({"o1"}, MaxBatch)
TableSummaries == SeqsUpTo({"s2"}, MaxBatch)
TableElements == SeqsUpTo({"o2"}, MaxBatch)
ImageSummaries == SeqsUpTo(Summaries, MaxBatch)

SetupRetrieval ==
    \E text_summaries \in TextSummaries, table_summaries \in TableSummaries,
       image_summaries \in ImageSummaries :
        /\ Len(vectorstore) + Len(text_summaries) + Len(table_summaries)
              + Len(image_summaries) <= MaxIds
        /\ \E text_elements \in TextElements, table_elements \in TableElements,
              fault \in ContentFaults :
            /\ fault_reached(text_summaries, text_elements, table_summaries,
                             table_elements, image_summaries, fault)
            /\ setup_retrieval(text_summaries, text_elements, table_summaries,
                               table_elements, image_summaries, fault)
            /\ UNCHANGED calls

\* The failures of the second search and of get_stats inside ask are inputs
\* of Ask; here the chain's own search and the chat model may fail.
AskQuestion ==
    \E question \in Queries, searchFault1 \in BOOLEAN, llmFault \in BOOLEAN :
        /\ qa_chain = None => ~searchFault1 /\ ~llmFault
        /\ UNCHANGED <<vectorstore, docstore, app>>
        /\ last' = [op |-> "ask_question", question |-> question,
                    ready |-> qa_chain # None]
                      @@ ask_question(question, searchFault1, llmFault, FALSE, FALSE)

\* One run of the application: content is set up, questions are asked.
NextApp == SetupRetrieval \/ AskQuestion

SpecApp == Init /\ [][NextApp]_vars

\* ------------------------------------------------------------------ concurrent calls
\* add_documents_to_retriever takes no lock.  A call running in a thread is
\* three steps the others can come between: the ids are made (line 66), the
\* summary documents go to the collection (line 82), the pairs go to the
\* document store one after another (line 86; InMemoryStore.mset assigns
\* key by key).
InFlightIds ==
    UNION {IF calls[t].pc = "idle" THEN {}
           ELSE {calls[t].ids[i] : i \in 1..Len(calls[t].ids)} : t \in Threads}

UsedIds == IndexIds \cup StoreIds \cup InFlightIds

\* [str(uuid.uuid4()) for _ in summaries] while other calls are running: ids
\* that no store and no running call holds.
fresh_ids(n) == [i \in 1..n |-> Cardinality(UsedIds) + i]

BeginIngest(t) ==
    /\ calls[t].pc = "idle"
    /\ \E summaries \in SeqsUpTo(Summaries, MaxLen) \ {<<>>} :
          /\ Cardinality(UsedIds) + Len(summaries) <= MaxIds
          /\ calls' = [calls EXCEPT ![t] =
                          [pc |-> "add_documents",
                           ids |-> fresh_ids(Len(summaries)),
                           summaries |-> summaries,
                           original_contents |->
                               [i \in 1..Len(summaries) |-> original_of(summaries[i])],
                           written |-> 0]]
    /\ UNCHANGED <<vectorstore, docstore, last, qa_chain>>

\* self.vectorstore.add_documents(summary_docs)
WriteIndex(t) ==
    /\ calls[t].pc = "add_documents"
    /\ vectorstore' = vectorstore \o
          [i \in 1..Len(calls[t].summaries) |->
              [page_content |-> calls[t].summaries[i], doc_id |-> calls[t].ids[i],
               content_type |-> "text", index |-> i - 1]]
    /\ calls' = [calls EXCEPT ![t].pc = "mset"]
    /\ UNCHANGED <<docstore, last, qa_chain>>

\* self.docstore.mset(doc_pairs): the next pair is stored; after the last
\* one the call returns.
WriteStore(t) ==
    /\ calls[t].pc = "mset"
    /\ docstore' = mset(docstore, zip(calls[t].ids, calls[t].original_contents),
                        calls[t].written + 1)
    /\ IF calls[t].written + 1 = Len(calls[t].ids)
       THEN /\ calls' = [calls EXCEPT ![t] = Idle]
            /\ last' = IngestOutcome("ok", calls[t].summaries,
                                     calls[t].original_contents, calls[t].ids)
       ELSE /\ calls' = [calls EXCEPT ![t].written = calls[t].written + 1]
            /\ last' = last
    /\ UNCHANGED <<vectorstore, qa_chain>>

\* A search while calls are running.  unpaired: the ids the index search
\* returned that the document store has no entry for.
SearchConcurrent ==
    \E query \in Queries, k \in 0..MaxK :
        /\ UNCHANGED <<vectorstore, docstore, app>>
        /\ last' = [op |-> "search", outcome |-> "returned", query |-> query, k |-> k,
                    fault |-> FALSE, result |-> search(query, k, FALSE),
                    unpaired |->
                        LET sub_docs == similarity_search(query, search_kwargs_k)
                        IN {sub_docs[i].doc_id : i \in 1..Len(sub_docs)} \ StoreIds]

NextConcurrent ==
    \/ \E t \in Threads : BeginIngest(t)
    \/ \E t \in Threads : WriteIndex(t)
    \/ \E t \in Threads : WriteStore(t)
    \/ SearchConcurrent

SpecConcurrent == Init /\ [][NextConcurrent]_vars

\* ------------------------------------------------------------------ claims
\* The index holds a record with this id for this summary.
HoldsSummary(index, id, summary) ==
    \E r \in 1..Len(index) : index[r].doc_id = id /\ index[r].page_content = summary

\* C1: after an ingest call that returns without raising, every index i of
\* the input has a fresh id whose Summary Index record carries summaries[i]
\* and whose Content Store entry equals originals[i].
C1_IngestPairsEveryIndex ==
    [][(last'.op = "ingest" /\ last'.outcome \in {"ok", "skipped"})
       => \A i \in 1..Min(last'.nS, last'.nO) :
            \A s \in [1..last'.nS -> Summaries], o \in [1..last'.nO -> Originals],
               t \in ContentTypes, f \in IngestFaults :
                add_documents_to_retriever(s, o, t, f)
                => \E id \in (IndexIds' \cup StoreIds') \ (IndexIds \cup StoreIds) :
                      /\ HoldsSummary(vectorstore', id, s[i])
                      /\ id \in DOMAIN docstore'
                      /\ docstore'[id] = o[i]]_vars

C1_Witness ==
    /\ last.op = "ingest" /\ last.outcome = "ok" /\ last.nS = 2
    /\ docstore[last.ids[1]] # docstore[last.ids[2]]
    /\ Len(vectorstore) = 2

\* C2: after any sequence of constructions and completed ingest calls the
\* Summary Index and the Content Store hold the same ids, each id once.
C2_StoresHoldSameIds ==
    /\ IndexIds = StoreIds
    /\ \A i, j \in 1..Len(vectorstore) :
          vectorstore[i].doc_id = vectorstore[j].doc_id => i = j

\* C3 as claimed: whenever the two lists differ in length, one of them being
\* empty included, ingest raises the mismatch error and changes no store.
C3_EveryMismatchRaises ==
    [][(last'.op = "ingest" /\ last'.nS # last'.nO)
       => /\ last'.outcome = "ValueError"
          /\ UNCHANGED <<vectorstore, docstore>>]_vars

\* C3 as amended: two non-empty lists of different lengths raise the
\* mismatch error; a mismatch in which one list is empty returns without
\* raising; both leave the two stores unchanged.
C3_NonEmptyMismatchRaises ==
    [][(last'.op = "ingest" /\ last'.nS # last'.nO)
       => /\ last'.outcome =
                (IF last'.nS > 0 /\ last'.nO > 0 THEN "ValueError" ELSE "skipped")
          /\ UNCHANGED <<vectorstore, docstore>>]_vars

C3_Witness ==
    /\ last.op = "ingest" /\ last.outcome = "ValueError"
    /\ last.nS # last.nO /\ last.nS > 0 /\ last.nO > 0
    /\ Len(vectorstore) > 0

\* C4: a failed ingest call leaves no entry of its own in either store.
C4_FailedIngestWritesNothing ==
    (last.op = "ingest" /\ last.outcome \in {"raised", "ValueError"})
    => \A i \in 1..Len(last.ids) : last.ids[i] \notin IndexIds \cup StoreIds

\* C5: an ingest call with an empty list returns without raising and leaves
\* both stores, and so their counts, unchanged.
C5_EmptyInputIsNoOp ==
    [][(last'.op = "ingest" /\ (last'.nS = 0 \/ last'.nO = 0))
       => /\ last'.outcome = "skipped"
          /\ UNCHANGED <<vectorstore, docstore>>
          /\ Len(vectorstore') = Len(vectorstore)
          /\ Cardinality(StoreIds') = Cardinality(StoreIds)]_vars

C5_Witness ==
    /\ last.op = "ingest" /\ last.outcome = "skipped"
    /\ last.nS # last.nO
    /\ Len(vectorstore) > 0 /\ StoreIds # {}

IsPrefix(a, b) == Len(a) <= Len(b) /\ \A i \in 1..Len(a) : a[i] = b[i]

\* The Content Store payloads of those of the documents that have one, in
\* the documents' order.
Payloads(docs) ==
    LET kept == SelectSeq(docs, LAMBDA d : d.doc_id \in StoreIds)
    IN [i \in 1..Len(kept) |-> docstore[kept[i].doc_id]]

\* The whole index in descending similarity to the query.
Ranking(query) == similarity_search(query, Len(vectorstore))

\* C6: search returns, without raising, at most k results in descending
\* similarity of their summaries, and none when nothing matches.
C6_SearchBoundedAndOrdered ==
    last.op = "search"
    => /\ last.outcome = "returned"
       /\ Len(last.result) <= last.k
       /\ IsPrefix(last.result, Payloads(Ranking(last.query)))

\* C7: with the stores and the collaborators fixed, search(q, k) is a prefix
\* of search(q, k + 1).
C7_PrefixOfLargerK ==
    \A q \in Queries, k \in 0..MaxK, f \in BOOLEAN :
        IsPrefix(search(q, k, f), search(q, k + 1, f))

C7_Witness ==
    /\ last.op = "search" /\ ~last.fault
    /\ last.k = search_kwargs_k + 1
    /\ Len(last.result) = search_kwargs_k
    /\ last.result[1] # last.result[search_kwargs_k]
    /\ Cardinality(StoreIds) > search_kwargs_k

\* C8: when some Summary Index entries have no Content Store entry, search
\* returns exactly the payloads of the k candidates that have one, in
\* similarity order.
C8_MissingPairsOmitted ==
    (last.op = "search" /\ ~last.fault /\ IndexIds \ StoreIds # {})
    => /\ last.outcome = "returned"
       /\ last.result = Payloads(similarity_search(last.query, last.k))

\* C9: a collaborator failing during search reaches the caller as a raised
\* error, so whatever search returns is made of Content Store payloads.
C9_SearchFailureIsRaised ==
    last.op = "search"
    => /\ last.fault => last.outcome = "raised"
       /\ \A i \in 1..Len(last.result) :
             \E id \in StoreIds : docstore[id] = last.result[i]

\* C10: ask returns instead of raising, and when retrieval or generation
\* failed its result has error = true and context count 0.
C10_AskFailureIsFlagged ==
    last.op = "ask"
    => /\ last.outcome = "returned"
       /\ (last.searchFailed \/ last.llmFailed)
             => /\ "error" \in DOMAIN last.result
                /\ last.result.error = TRUE
                /\ last.result.context_used = 0

\* C15: with every pairing intact and N pairs ingested, search(query, k)
\* returns exactly min(k, N) results, for k above 4 as well.
C15_SearchReturnsMinOfKAndN ==
    (last.op = "search" /\ ~last.fault /\ IndexIds = StoreIds)
    => Len(last.result) = Min(last.k, Len(vectorstore))

\* The error flag of one result; a result without the key carries no error.
ErrorFlag(result) == "error" \in DOMAIN result /\ result.error

\* C11: batch_ask returns one result per question, in input order, each with
\* its own error flag: error = true for a question whose generation failed,
\* error = false and the question's own non-empty answer for every other.
C11_BatchResultsAreIndependent ==
    last.op = "batch_ask" =>
        /\ Len(last.results) = Len(last.questions)
        /\ \A i \in 1..Len(last.questions) :
              /\ last.results[i].question = last.questions[i]
              /\ last.llmFailed[i] => ErrorFlag(last.results[i])
              /\ ~last.llmFailed[i] =>
                    /\ ~ErrorFlag(last.results[i])
                    /\ last.results[i].answer = llm(last.results[i].answer[2], last.questions[i])

\* C12: while qa_chain is unset, asking a question returns (does not raise) a
\* result whose error field is true in Python's truth test (it holds the
\* message), and neither the retriever's search nor the chat model is reached.
C12_UninitializedAskReturnsError ==
    (last.op = "ask_question" /\ ~last.ready) =>
        /\ last.outcome = "returned"
        /\ "error" \in DOMAIN last.result
        /\ last.result.error # ""
        /\ last.invoked = {}

C12_Witness ==
    /\ last.op = "ask_question"
    /\ qa_chain = None
    /\ last.outcome = "returned"
    /\ last.result = [error |-> "Q&A chain not initialized"]

\* C13: the application is Ready (qa_chain set) only after an ingest call has
\* written at least one pair to the stores; it is never Ready when
\* setup_retrieval was given no content.
C13_ReadyOnlyAfterIngest ==
    qa_chain # None => (vectorstore # <<>> /\ StoreIds # {})

\* The records setup_retrieval added to the index in the step that ends now.
AddedRecords == last'.first_id .. Len(vectorstore')

\* C14: every image summary passed to add_all_content is stored in the
\* Content Store under the id of its own Summary Index record, as the summary
\* text itself; the text and table records are stored with the element passed
\* at their position.
C14_ImagesStoredAsSummaries ==
    [][(last'.op = "setup_retrieval" /\ last'.outcome = "ok") =>
          /\ \A i \in 1..Len(last'.image_summaries) :
                \E r \in AddedRecords :
                    /\ vectorstore'[r].content_type = "image"
                    /\ vectorstore'[r].index = i - 1
                    /\ vectorstore'[r].page_content = last'.image_summaries[i]
          /\ \A r \in AddedRecords :
                /\ vectorstore'[r].doc_id \in DOMAIN docstore'
                /\ docstore'[vectorstore'[r].doc_id] =
                      CASE vectorstore'[r].content_type = "image" ->
                               vectorstore'[r].page_content
                        [] vectorstore'[r].content_type = "text" ->
                               last'.text_elements[vectorstore'[r].index + 1]
                        [] vectorstore'[r].content_type = "table" ->
                               last'.table_elements[vectorstore'[r].index + 1]
      ]_vars

C14_Witness ==
    /\ last.op = "setup_retrieval"
    /\ last.outcome = "ok"
    /\ last.image_summaries # <<>>
    /\ last.text_summaries # <<>>
    /\ last.text_elements # <<>>
    /\ \E r \in 1..Len(vectorstore) :
          /\ vectorstore[r].content_type = "image"
          /\ docstore[vectorstore[r].doc_id] = vectorstore[r].page_content

\* C16: under any interleaving of concurrent ingest calls and searches, no
\* search observes a Summary Index id that the Content Store has no entry
\* for, and once every ingest call has completed every id is in both stores
\* with the content of its own call.
C16_ConcurrentCallsKeepPairing ==
    /\ (last.op = "search") => (last.unpaired = {})
    /\ (\A t \in Threads : calls[t] = Idle) =>
          /\ IndexIds = StoreIds
          /\ \A r \in 1..Len(vectorstore) :
                docstore[vectorstore[r].doc_id] = original_of(vectorstore[r].page_content)
====
